---- MODULE Spec2Model ----
(***************************************************************************)
(* Model of ingestion/ingest.py: the NCC PDF ingestion pipeline.           *)
(*                                                                         *)
(* A text is a sequence of atoms.  An atom is a string that stands for one *)
(* character (" ", "\n", ".", "A", "1", the hair space "hs", ...) or, for  *)
(* the atoms "w<n>", for a run of n ordinary lower-case letters.  len() of *)
(* a text is the sum of the weights of its atoms, so that texts longer     *)
(* than MAX_CHUNK_CHARS are a handful of atoms.                            *)
(***************************************************************************)
EXTENDS Integers, Sequences, FiniteSets, TLC

MAX_CHUNK_CHARS == 2000
MIN_CHUNK_CHARS == 50

\* ---------------------------------------------------------------- texts

SP == " "
NL == "\n"
HS == "hs"
NBSP == "nbsp"

\* str.isspace() of one character: U+200A and U+00A0 are Unicode whitespace
IsSpace(a) == a \in {SP, NL, HS, NBSP}

\* number of characters an atom stands for
Weight(a) ==
  CASE a = "w10" -> 10
    [] a = "w30" -> 30
    [] a = "w60" -> 60
    [] a = "w1200" -> 1200
    [] a = "w2001" -> 2001
    [] a \in {"NCC 2022 Volume One - Building Code of Australia",
              "NCC 2022 Volume Two - Building Code of Australia"} -> 48
    [] a \in {"(1 May 2023)", "New for 2022", "New For 2022"} -> 12
    [] a \in {"Page", "2019"} -> 4
    [] OTHER -> 1

RECURSIVE TextLen(_)
TextLen(t) == IF t = <<>> THEN 0 ELSE Weight(Head(t)) + TextLen(Tail(t))

\* t[i:j] with 1-based i and exclusive j
Slice(t, i, j) == SubSeq(t, i, j - 1)

RECURSIVE LStrip(_)
LStrip(t) == IF t # <<>> /\ IsSpace(Head(t)) THEN LStrip(Tail(t)) ELSE t

RECURSIVE RStrip(_)
RStrip(t) ==
  IF t # <<>> /\ IsSpace(t[Len(t)]) THEN RStrip(SubSeq(t, 1, Len(t) - 1)) ELSE t

\* str.strip()
Strip(t) == RStrip(LStrip(t))

\* index of the last atom of the maximal whitespace run that starts at i
\* (i - 1 when t[i] is not whitespace)
RECURSIVE SpaceRunEnd(_, _)
SpaceRunEnd(t, i) ==
  IF i <= Len(t) /\ IsSpace(t[i]) THEN SpaceRunEnd(t, i + 1) ELSE i - 1

\* ------------------------------------------------------- chunk splitter

\* re.split(r"\n\s*\n", text): a match starts at a newline and, \s* being
\* greedy, ends at the last newline of the whitespace run that follows it
RECURSIVE SplitParagraphs(_, _, _)
SplitParagraphs(t, from, i) ==
  IF i > Len(t) THEN <<Slice(t, from, Len(t) + 1)>>
  ELSE IF t[i] = NL
    THEN LET e == SpaceRunEnd(t, i + 1)
             nls == {k \in (i + 1)..e : t[k] = NL}
         IN IF nls = {} THEN SplitParagraphs(t, from, i + 1)
            ELSE LET k == CHOOSE x \in nls : \A y \in nls : y <= x
                 IN <<Slice(t, from, i)>> \o SplitParagraphs(t, k + 1, k + 1)
    ELSE SplitParagraphs(t, from, i + 1)

\* the paragraph loop of split_long_chunk: <<result, current>> after it
RECURSIVE AccumulateParagraphs(_, _, _)
AccumulateParagraphs(paragraphs, result, current) ==
  IF paragraphs = <<>> THEN <<result, current>>
  ELSE LET para == Head(paragraphs)
       IN IF current # <<>> /\ TextLen(current) + TextLen(para) + 2 > MAX_CHUNK_CHARS
            THEN AccumulateParagraphs(Tail(paragraphs),
                                      Append(result, Strip(current)), para)
            ELSE AccumulateParagraphs(Tail(paragraphs), result,
                   IF current # <<>> THEN current \o <<NL, NL>> \o para ELSE para)

paragraph_pass(text) ==
  LET acc == AccumulateParagraphs(SplitParagraphs(text, 1, 1), <<>>, <<>>)
  IN IF Strip(acc[2]) # <<>> THEN Append(acc[1], Strip(acc[2])) ELSE acc[1]

ReplaceLast(s, x) == [s EXCEPT ![Len(s)] = x]

\* a merge pass that only merges a short fragment backwards
RECURSIVE merge_pass_no_forward(_, _)
merge_pass_no_forward(res, mrg) ==
  IF res = <<>> THEN mrg
  ELSE LET chunk == Head(res)
       IN IF mrg # <<>> /\ TextLen(chunk) < MIN_CHUNK_CHARS
            THEN merge_pass_no_forward(Tail(res),
                   ReplaceLast(mrg, mrg[Len(mrg)] \o <<NL, NL>> \o chunk))
            ELSE merge_pass_no_forward(Tail(res), Append(mrg, chunk))

\* the merge loop of split_long_chunk
RECURSIVE merge_pass(_, _)
merge_pass(res, mrg) ==
  IF res = <<>> THEN mrg
  ELSE LET chunk == Head(res)
       IN IF mrg # <<>> /\ TextLen(mrg[Len(mrg)]) < MIN_CHUNK_CHARS
            THEN merge_pass(Tail(res),
                   ReplaceLast(mrg, mrg[Len(mrg)] \o <<NL, NL>> \o chunk))
          ELSE IF mrg # <<>> /\ TextLen(chunk) < MIN_CHUNK_CHARS
            THEN merge_pass(Tail(res),
                   ReplaceLast(mrg, mrg[Len(mrg)] \o <<NL, NL>> \o chunk))
            ELSE merge_pass(Tail(res), Append(mrg, chunk))

\* re.split(r"(?<=[.;])\s+|\n", text)
RECURSIVE SplitSentences(_, _, _)
SplitSentences(t, from, i) ==
  IF i > Len(t) THEN <<Slice(t, from, Len(t) + 1)>>
  ELSE IF i > 1 /\ t[i - 1] \in {".", ";"} /\ IsSpace(t[i])
    THEN LET e == SpaceRunEnd(t, i)
         IN <<Slice(t, from, i)>> \o SplitSentences(t, e + 1, e + 1)
  ELSE IF t[i] = NL
    THEN <<Slice(t, from, i)>> \o SplitSentences(t, i + 1, i + 1)
    ELSE SplitSentences(t, from, i + 1)

\* the sentence loop of split_at_sentences: <<result, current>> after it
RECURSIVE AccumulateSentences(_, _, _)
AccumulateSentences(sentences, result, current) ==
  IF sentences = <<>> THEN <<result, current>>
  ELSE LET sent == Head(sentences)
       IN IF Strip(sent) = <<>>
            THEN AccumulateSentences(Tail(sentences), result, current)
          ELSE IF current # <<>> /\ TextLen(current) + TextLen(sent) + 1 > MAX_CHUNK_CHARS
            THEN AccumulateSentences(Tail(sentences),
                                     Append(result, Strip(current)), sent)
            ELSE AccumulateSentences(Tail(sentences), result,
                   IF current # <<>> THEN current \o <<SP>> \o sent ELSE sent)

\* `result` of split_at_sentences just before its return
sentence_fragments(text) ==
  LET acc == AccumulateSentences(SplitSentences(text, 1, 1), <<>>, <<>>)
  IN IF Strip(acc[2]) # <<>> THEN Append(acc[1], Strip(acc[2])) ELSE acc[1]

split_at_sentences(text) ==
  IF sentence_fragments(text) # <<>> THEN sentence_fragments(text) ELSE <<text>>

\* the force-split loop of split_long_chunk
RECURSIVE force_split(_)
force_split(mrg) ==
  IF mrg = <<>> THEN <<>>
  ELSE (IF TextLen(Head(mrg)) <= MAX_CHUNK_CHARS
          THEN <<Head(mrg)>> ELSE split_at_sentences(Head(mrg)))
       \o force_split(Tail(mrg))

split_long_chunk(text) ==
  IF TextLen(text) <= MAX_CHUNK_CHARS THEN <<text>>
  ELSE force_split(merge_pass(paragraph_pass(text), <<>>))

\* ---------------------------------------------------- document loader

VOLTITLE1 == "NCC 2022 Volume One - Building Code of Australia"
VOLTITLE2 == "NCC 2022 Volume Two - Building Code of Australia"
PAGEWORD == "Page"
FOOTER == "(1 May 2023)"
ANNO_TAGS == {"2019", "New for 2022", "New For 2022"}

\* atoms made of decimal digits only
IsDigit(a) == a \in {"0", "1", "2", "3", "4", "5", "6", "7", "8", "9", "2019"}
IsUpper(a) == a \in {"A", "B", "C", "D", "E", "F", "G", "H", "I", "J", "K",
                     "L", "M", "N", "O", "P", "Q", "R", "S", "T", "U", "V",
                     "W", "X", "Y", "Z"}

\* VOLUME_HEADERS[volume], as the title line the pattern names
VOLUME_HEADERS(volume) == IF volume = 1 THEN VOLTITLE1 ELSE VOLTITLE2
VOLUME_CLASSES(volume) ==
  IF volume = 1 THEN <<2, 3, 4, 5, 6, 7, 8, 9>> ELSE <<1, 10>>

\* index of the first newline at or after i (Len(t) + 1 when there is none)
RECURSIVE LineEnd(_, _)
LineEnd(t, i) == IF i > Len(t) \/ t[i] = NL THEN i ELSE LineEnd(t, i + 1)

RECURSIVE DigitRunEnd(_, _)
DigitRunEnd(t, i) ==
  IF i <= Len(t) /\ IsDigit(t[i]) THEN DigitRunEnd(t, i + 1) ELSE i - 1

At(t, i) == IF i >= 1 /\ i <= Len(t) THEN t[i] ELSE "eof"

\* "$" under re.MULTILINE just after position p
EndOfLineAfter(t, p) == p = Len(t) \/ At(t, p + 1) = NL

\* last index of the match of  ^.+\n<volume title>\nPage \d+\n  that starts
\* at the line start i, or 0
HeaderMatchEnd(t, i, title) ==
  LET j == LineEnd(t, i)
      m == DigitRunEnd(t, j + 5)
  IN IF /\ j > i
        /\ At(t, j) = NL
        /\ At(t, j + 1) = title
        /\ At(t, j + 2) = NL
        /\ At(t, j + 3) = PAGEWORD
        /\ At(t, j + 4) = SP
        /\ m >= j + 5
        /\ At(t, m + 1) = NL
       THEN m + 1 ELSE 0

\* header_re.sub("", text)
RECURSIVE SubHeader(_, _, _)
SubHeader(t, i, title) ==
  IF i > Len(t) THEN <<>>
  ELSE IF (i = 1 \/ t[i - 1] = NL) /\ HeaderMatchEnd(t, i, title) # 0
    THEN SubHeader(t, HeaderMatchEnd(t, i, title) + 1, title)
    ELSE <<t[i]>> \o SubHeader(t, i + 1, title)

\* last index of the match of  \s*$  that starts at i (i - 1: empty match), or
\* -1 when  \s*$  does not match at i
SpaceToEolEnd(t, i) ==
  LET ends == {p \in (i - 1)..SpaceRunEnd(t, i) : EndOfLineAfter(t, p)}
  IN IF ends = {} THEN -1 ELSE CHOOSE p \in ends : \A q \in ends : q <= p

\* FOOTER_RE.sub("", text)
RECURSIVE SubFooter(_, _)
SubFooter(t, i) ==
  IF i > Len(t) THEN <<>>
  ELSE IF t[i] = FOOTER /\ SpaceToEolEnd(t, i + 1) # -1
    THEN SubFooter(t, SpaceToEolEnd(t, i + 1) + 1)
    ELSE <<t[i]>> \o SubFooter(t, i + 1)

\* last index of the match of VERSION_ANNO_RE that starts at the line start
\* i, or 0: ".+" is greedy, so the closing bracket is the last one of the
\* line after which  \s*$  matches
AnnoMatchEnd(t, i) ==
  LET e == LineEnd(t, i)
      rs == {r \in (i + 4)..(e - 1) : t[r] = "]" /\ SpaceToEolEnd(t, r + 1) # -1}
  IN IF At(t, i) = "[" /\ At(t, i + 1) \in ANNO_TAGS /\ At(t, i + 2) = ":" /\ rs # {}
       THEN SpaceToEolEnd(t, (CHOOSE r \in rs : \A q \in rs : q <= r) + 1)
       ELSE 0

\* VERSION_ANNO_RE.sub("", text)
RECURSIVE SubAnno(_, _)
SubAnno(t, i) ==
  IF i > Len(t) THEN <<>>
  ELSE IF (i = 1 \/ t[i - 1] = NL) /\ AnnoMatchEnd(t, i) # 0
    THEN SubAnno(t, AnnoMatchEnd(t, i) + 1)
    ELSE <<t[i]>> \o SubAnno(t, i + 1)

clean_page_text(text, volume) ==
  Strip(SubAnno(SubFooter(SubHeader(text, 1, VOLUME_HEADERS(volume)), 1), 1))

\* --------------------------------------------------- section segmenter

\* None, and the falsy empty string
None == <<>>

STATE_PREFIXES ==
  {<<"A", "C", "T">>, <<"N", "S", "W">>, <<"N", "T">>, <<"Q", "L", "D">>,
   <<"S", "A">>, <<"T", "A", "S">>, <<"V", "I", "C">>, <<"W", "A">>}

\* str.upper() of one atom; an atom of lower-case letters becomes an atom
\* of upper-case letters
UpperAtom(a) ==
  CASE a = "a" -> "A" [] a = "c" -> "C" [] a = "n" -> "N" [] a = "s" -> "S"
    [] a = "t" -> "T" [] a = "w" -> "W" [] a = "d" -> "D" [] a = "e" -> "E"
    [] a = "h" -> "H" [] a = "l" -> "L" [] a = "u" -> "U" [] a = "r" -> "R"
    [] a = "w10" -> "W10" [] a = "w30" -> "W30" [] a = "w60" -> "W60"
    [] a = "w1200" -> "W1200" [] a = "w2001" -> "W2001"
    [] OTHER -> a

Upper(t) == [i \in 1..Len(t) |-> UpperAtom(t[i])]

\* str.split(): the maximal runs of non-whitespace
RECURSIVE WordEnd(_, _)
WordEnd(t, i) == IF i <= Len(t) /\ ~IsSpace(t[i]) THEN WordEnd(t, i + 1) ELSE i

RECURSIVE Words(_)
Words(t) ==
  LET s == LStrip(t)
      e == WordEnd(s, 1)
  IN IF s = <<>> THEN <<>>
     ELSE <<Slice(s, 1, e)>> \o Words(Slice(s, e, Len(s) + 1))

\* str.find(pat, from) with 1-based indices; 0 for -1
RECURSIVE Find(_, _, _)
Find(t, pat, from) ==
  IF from + Len(pat) - 1 > Len(t) THEN 0
  ELSE IF SubSeq(t, from, from + Len(pat) - 1) = pat THEN from
  ELSE Find(t, pat, from + 1)

\* pat in t
Contains(t, pat) == Find(t, pat, 1) # 0

AllIn(t, i, j, P(_)) == i <= j /\ \A k \in i..j : P(t[k])

\* SECTION_ID_RE.match(word):  ^[A-Z]\d+[A-Z]+\d+$
SECTION_ID_RE(word) ==
  \E i, j \in 2..Len(word) :
     /\ i < j
     /\ IsUpper(word[1])
     /\ AllIn(word, 2, i, IsDigit)
     /\ AllIn(word, i + 1, j, IsUpper)
     /\ AllIn(word, j + 1, Len(word), IsDigit)

\* SPEC_ID_RE.match(word):  ^S\d+C\d+$
SPEC_ID_RE(word) ==
  \E i \in 2..Len(word) :
     /\ word[1] = "S"
     /\ AllIn(word, 2, i, IsDigit)
     /\ At(word, i + 1) = "C"
     /\ AllIn(word, i + 2, Len(word), IsDigit)

RECURSIVE FirstId(_)
FirstId(words) ==
  IF words = <<>> THEN None
  ELSE IF SECTION_ID_RE(Head(words)) \/ SPEC_ID_RE(Head(words)) THEN Head(words)
  ELSE FirstId(Tail(words))

extract_section_id(title) == FirstId(Words(title))

is_state_appendix(title, level) ==
  IF level > 2 THEN FALSE
  ELSE LET first_word == IF Words(title) # <<>> THEN Words(title)[1] ELSE <<>>
       IN IF Upper(first_word) \in STATE_PREFIXES THEN TRUE
          ELSE IF /\ Contains(title, <<"S", "c", "h", "e", "d", "u", "l", "e">>)
                  /\ \E s \in STATE_PREFIXES : Contains(title, s)
            THEN TRUE
            ELSE FALSE

\* toc entries are records [level, title, page]; idx is 0-based as in the code
RECURSIVE get_part_from_toc(_, _)
get_part_from_toc(toc, idx) ==
  IF idx <= 0 THEN None
  ELSE IF toc[idx].level <= 2 THEN toc[idx].title
  ELSE get_part_from_toc(toc, idx - 1)

marker_of(section_id) == <<HS>> \o section_id \o <<HS>>

\* extract_section_text with the search for the next marker begun at the
\* top of the text instead of after the section's own marker
extract_section_text_from_top(full_text, section_id, next_section_id) ==
  LET marker == marker_of(section_id)
      start == Find(full_text, marker, 1)
      end == IF next_section_id # None
               THEN Find(full_text, marker_of(next_section_id), 1) ELSE 0
  IN IF start = 0 THEN full_text
     ELSE IF next_section_id # None /\ end # 0
       THEN Strip(Slice(full_text, start, end))
       ELSE Strip(Slice(full_text, start, Len(full_text) + 1))

extract_section_text(full_text, section_id, next_section_id) ==
  LET marker == marker_of(section_id)
      start == Find(full_text, marker, 1)
      end == IF next_section_id # None
               THEN Find(full_text, marker_of(next_section_id), start + Len(marker))
               ELSE 0
  IN IF start = 0 THEN full_text
     ELSE IF next_section_id # None /\ end # 0
       THEN Strip(Slice(full_text, start, end))
       ELSE Strip(Slice(full_text, start, Len(full_text) + 1))

Min(a, b) == IF a <= b THEN a ELSE b

\* lines 127-135 with the flag never cleared by a later level-<=2 entry
RECURSIVE filter_l3_sticky(_, _, _)
filter_l3_sticky(toc, i, state_appendix_started) ==
  IF i >= Len(toc) THEN <<>>
  ELSE LET e == toc[i + 1]
           started == IF e.level <= 2
                        THEN state_appendix_started \/ is_state_appendix(e.title, e.level)
                        ELSE state_appendix_started
       IN (IF ~started /\ e.level = 3 THEN <<<<i, e.title, e.page>>>> ELSE <<>>)
          \o filter_l3_sticky(toc, i + 1, started)

\* lines 127-135: the l3_entries collected from toc[i:], i 0-based
RECURSIVE filter_l3(_, _, _)
filter_l3(toc, i, state_appendix_started) ==
  IF i >= Len(toc) THEN <<>>
  ELSE LET e == toc[i + 1]
           started == IF e.level <= 2 THEN is_state_appendix(e.title, e.level)
                                       ELSE state_appendix_started
       IN (IF ~started /\ e.level = 3 THEN <<<<i, e.title, e.page>>>> ELSE <<>>)
          \o filter_l3(toc, i + 1, started)

\* lines 139-145
find_content_end(toc, l3_entries, total_pages) ==
  LET last_l3_toc_idx == IF l3_entries # <<>> THEN l3_entries[Len(l3_entries)][1] ELSE 0
      hits == {i \in (last_l3_toc_idx + 1)..(Len(toc) - 1) : toc[i + 1].level <= 1}
  IN IF hits = {} THEN total_pages
     ELSE toc[(CHOOSE i \in hits : \A j \in hits : i <= j) + 1].page

\* lines 152-155; entry_idx is 0-based
entry_end_page(l3_entries, entry_idx, content_end_page) ==
  IF entry_idx + 1 < Len(l3_entries) THEN l3_entries[entry_idx + 2][3]
  ELSE content_end_page

\* a page range that stops before the page end_page
page_range_exclusive(start_page, end_page, total_pages) ==
  LET lo == start_page - 1
      hi == Min(end_page - 1, total_pages)
  IN [k \in 1..(IF hi > lo THEN hi - lo ELSE 0) |-> lo + k - 1]

\* range(start_page - 1, min(end_page, total_pages)): 0-based page indices
page_range(start_page, end_page, total_pages) ==
  LET lo == start_page - 1
      hi == Min(end_page, total_pages)
  IN [k \in 1..(IF hi > lo THEN hi - lo ELSE 0) |-> lo + k - 1]

\* "\n".join(texts)
RECURSIVE JoinLines(_)
JoinLines(texts) ==
  IF texts = <<>> THEN <<>>
  ELSE IF Len(texts) = 1 THEN texts[1]
  ELSE texts[1] \o <<NL>> \o JoinLines(Tail(texts))

\* content.replace("\u200a", "").replace("\xa0", " ")
RECURSIVE ReplaceSpaces(_)
ReplaceSpaces(t) ==
  IF t = <<>> THEN <<>>
  ELSE (CASE Head(t) = HS -> <<>> [] Head(t) = NBSP -> <<SP>> [] OTHER -> <<Head(t)>>)
       \o ReplaceSpaces(Tail(t))

RECURSIVE BlankRunEnd(_, _)
BlankRunEnd(t, i) ==
  IF i <= Len(t) /\ t[i] = SP THEN BlankRunEnd(t, i + 1) ELSE i - 1

\* re.sub(r"\n[ \t]+\n", "\n\n", content)
RECURSIVE CollapseBlankLines(_, _)
CollapseBlankLines(t, i) ==
  IF i > Len(t) THEN <<>>
  ELSE LET e == BlankRunEnd(t, i + 1)
       IN IF t[i] = NL /\ e >= i + 1 /\ At(t, e + 1) = NL
            THEN <<NL, NL>> \o CollapseBlankLines(t, e + 2)
            ELSE <<t[i]>> \o CollapseBlankLines(t, i + 1)

\* lines 178-180
clean_content(content) == CollapseBlankLines(ReplaceSpaces(content), 1)

DigitAtom(d) ==
  CASE d = 0 -> "0" [] d = 1 -> "1" [] d = 2 -> "2" [] d = 3 -> "3" [] d = 4 -> "4"
    [] d = 5 -> "5" [] d = 6 -> "6" [] d = 7 -> "7" [] d = 8 -> "8" [] d = 9 -> "9"

\* str(n) of a non-negative integer
RECURSIVE Decimal(_)
Decimal(n) ==
  IF n < 10 THEN <<DigitAtom(n)>> ELSE Decimal(n \div 10) \o <<DigitAtom(n % 10)>>

\* lines 184-195: the chunk records of one section
make_chunks(content, volume, part, section_id, title) ==
  LET sub_chunks == split_long_chunk(content)
  IN [i \in 1..Len(sub_chunks) |->
        [content |-> sub_chunks[i],
         volume |-> volume,
         part |-> part,
         section |-> section_id,
         title |-> IF Len(sub_chunks) = 1 THEN title
                   ELSE title \o <<SP, "(", "p", "a", "r", "t", SP>>
                              \o Decimal(i) \o <<")">>,
         applicable_classes |-> VOLUME_CLASSES(volume),
         state_specific |-> FALSE]]

\* ================================================================ state

VARIABLES
  \* split_long_chunk, stage by stage
  text, split_pc, result, merged, final,
  \* chunk_pdf
  doc, toc, pdf_pc, l3_entries, content_end_page, entry_idx, page_cache,
  sections, chunks,
  \* main
  args, n_extracted, main_pc, exit_msg, pdf_opened, chunk_objs, main_chunks,
  printed, env_missing, gemini, sb, texts, emb_i, attempt, backoff,
  batch_calls, last_error, all_embeddings, up_i, inserted

splitVars == <<text, split_pc, result, merged, final>>
pdfVars == <<doc, toc, pdf_pc, l3_entries, content_end_page, entry_idx,
             page_cache, sections, chunks>>
mainVars == <<args, n_extracted, main_pc, exit_msg, pdf_opened, chunk_objs,
              main_chunks, printed, env_missing, gemini, sb, texts, emb_i,
              attempt, backoff, batch_calls, last_error, all_embeddings, up_i,
              inserted>>
vars == <<splitVars, pdfVars, mainVars>>

SplitIdle ==
  /\ text = <<>> /\ split_pc = "idle"
  /\ result = <<>> /\ merged = <<>> /\ final = <<>>

PdfIdle ==
  /\ doc = [volume |-> 2, pages |-> <<>>] /\ toc = <<>> /\ pdf_pc = "idle"
  /\ l3_entries = <<>> /\ content_end_page = 0 /\ entry_idx = 0
  /\ page_cache = <<>> /\ sections = <<>> /\ chunks = <<>>

MainIdle ==
  /\ args = [dry_run |-> TRUE, skip |-> 0] /\ n_extracted = 0
  /\ main_pc = "idle" /\ exit_msg = "" /\ pdf_opened = FALSE
  /\ chunk_objs = <<>> /\ main_chunks = <<>> /\ printed = <<>>
  /\ env_missing = {} /\ gemini = FALSE /\ sb = FALSE /\ texts = <<>>
  /\ emb_i = 0 /\ attempt = 0 /\ backoff = <<>> /\ batch_calls = 0
  /\ last_error = [type |-> "", msg |-> {}]
  /\ all_embeddings = <<>> /\ up_i = 0 /\ inserted = <<>>

\* ------------------------------------------- split_long_chunk as steps

MaxPieces == 5

Pieces ==
  {<<"w30">>, <<"w1200">>, <<"w2001">>, <<NL, NL>>, <<NL>>, <<".", SP>>}

RECURSIVE Concat(_)
Concat(ss) == IF ss = <<>> THEN <<>> ELSE Head(ss) \o Concat(Tail(ss))

SplitInputs ==
  {Concat(ps) : ps \in UNION {[1..k -> Pieces] : k \in 0..MaxPieces}}

InitSplit ==
  /\ text \in SplitInputs
  /\ split_pc = "start"
  /\ result = <<>> /\ merged = <<>> /\ final = <<>>
  /\ PdfIdle
  /\ MainIdle

\* lines 202-203
ReturnShort ==
  /\ split_pc = "start"
  /\ TextLen(text) <= MAX_CHUNK_CHARS
  /\ final' = <<text>>
  /\ split_pc' = "done"
  /\ UNCHANGED <<text, result, merged, pdfVars, mainVars>>

\* lines 205-218
ParagraphPass ==
  /\ split_pc = "start"
  /\ TextLen(text) > MAX_CHUNK_CHARS
  /\ result' = paragraph_pass(text)
  /\ split_pc' = "paragraphs"
  /\ UNCHANGED <<text, merged, final, pdfVars, mainVars>>

\* lines 220-228
MergePass ==
  /\ split_pc = "paragraphs"
  /\ merged' = merge_pass(result, <<>>)
  /\ split_pc' = "merged"
  /\ UNCHANGED <<text, result, final, pdfVars, mainVars>>

\* lines 230-237
ForceSplit ==
  /\ split_pc = "merged"
  /\ final' = force_split(merged)
  /\ split_pc' = "done"
  /\ UNCHANGED <<text, result, merged, pdfVars, mainVars>>

NextSplit == ReturnShort \/ ParagraphPass \/ MergePass \/ ForceSplit

SpecSplit == InitSplit /\ [][NextSplit]_vars

\* ------------------------------------------------- chunk_pdf as steps

MaxToc == 3

ID_D1 == <<"H", "1", "D", "1">>
ID_D2 == <<"H", "1", "D", "2">>

TITLE_D1 == ID_D1 \o <<SP, "w10">>
TITLE_D2 == ID_D2 \o <<SP, "w10">>
TITLE_INTRO == <<"I", "w10">>
TITLE_SECTION == <<"S", "e", "c", "t", "i", "o", "n", SP, "H">>
TITLE_PART == <<"P", "a", "r", "t", SP, "H", "1">>
TITLE_NSW == <<"N", "S", "W", SP, "A", "p", "p", "e", "n", "d", "i", "x">>
TITLE_SCHEDULE_SA ==
  <<"S", "c", "h", "e", "d", "u", "l", "e", SP, "5", SP, "S", "A">>

\* the (level, title) pairs the modelled tables of contents are made of
TocKinds ==
  {<<1, TITLE_SECTION>>, <<1, TITLE_SCHEDULE_SA>>, <<2, TITLE_PART>>,
   <<2, TITLE_NSW>>, <<3, TITLE_D1>>, <<3, TITLE_D2>>, <<3, TITLE_INTRO>>}

HEADER2 == <<"w10", NL, VOLTITLE2, NL, PAGEWORD, SP, "1", "2", NL>>

\* two sections on one page
PAGE_BOTH ==
  <<"w10", NL>> \o marker_of(ID_D1) \o <<SP, "w10", NL, "w30", NL>>
    \o marker_of(ID_D2) \o <<SP, "w10", NL, "w60">>
\* a page without markers
PAGE_PLAIN == <<"w60", NL, SP, NL, "w30", ".", SP, "w10">>
\* a page with running header and footer; H1D2 opens the page
PAGE_D2 ==
  HEADER2 \o marker_of(ID_D2) \o <<SP, "w10", NL, NBSP, "w30", NL, FOOTER, NL>>
\* a page that is nothing but its running header
PAGE_HEADER_ONLY == HEADER2
\* a page that names H1D2 before H1D1 begins
PAGE_XREF ==
  <<"w10", SP>> \o marker_of(ID_D2) \o <<"w10", SP>> \o marker_of(ID_D1) \o <<SP, "w30">>
\* an empty-bodied H1D1: the two markers share one hair space
PAGE_TIGHT == <<"w10", NL, HS>> \o ID_D1 \o <<HS>> \o ID_D2 \o <<HS, SP, "w30">>
\* an oversized section
PAGE_LONG ==
  <<"w10", NL>> \o marker_of(ID_D1) \o <<SP, "w1200", NL, SP, NL, "w1200", ".", SP, "w60">>

Documents ==
  {[volume |-> 2, pages |-> <<PAGE_BOTH, PAGE_PLAIN>>],
   [volume |-> 2, pages |-> <<PAGE_XREF, PAGE_HEADER_ONLY, PAGE_D2>>],
   [volume |-> 1, pages |-> <<PAGE_TIGHT>>],
   [volume |-> 2, pages |-> <<PAGE_LONG, PAGE_D2>>]}

\* doc.get_toc(): entries in document order, pages 1-based
Tocs(total_pages) ==
  LET Entries == {[level |-> k[1], title |-> k[2], page |-> pg] :
                    k \in TocKinds, pg \in 1..total_pages}
  IN {t \in UNION {[1..n -> Entries] : n \in 0..MaxToc} :
        \A i \in 1..(Len(t) - 1) : t[i].page <= t[i + 1].page}

InitPdf ==
  /\ doc \in Documents
  /\ toc \in Tocs(Len(doc.pages))
  /\ pdf_pc = "open"
  /\ l3_entries = <<>> /\ content_end_page = 0 /\ entry_idx = 0
  /\ page_cache = <<>> /\ sections = <<>> /\ chunks = <<>>
  /\ SplitIdle
  /\ MainIdle

\* lines 114-135
FilterToc ==
  /\ pdf_pc = "open"
  /\ l3_entries' = filter_l3(toc, 0, FALSE)
  /\ pdf_pc' = "filtered"
  /\ UNCHANGED <<doc, toc, content_end_page, entry_idx, page_cache, sections,
                 chunks, splitVars, mainVars>>

\* lines 137-145
FindContentEnd ==
  /\ pdf_pc = "filtered"
  /\ content_end_page' = find_content_end(toc, l3_entries, Len(doc.pages))
  /\ pdf_pc' = "entries"
  /\ UNCHANGED <<doc, toc, l3_entries, entry_idx, page_cache, sections,
                 chunks, splitVars, mainVars>>

\* get_page_text
get_page_text(pg_0idx) ==
  IF pg_0idx \in DOMAIN page_cache THEN page_cache[pg_0idx]
  ELSE clean_page_text(doc.pages[pg_0idx + 1], doc.volume)

\* lines 148-195: one turn of the loop over l3_entries
ProcessEntry ==
  /\ pdf_pc = "entries"
  /\ entry_idx < Len(l3_entries)
  /\ LET toc_idx == l3_entries[entry_idx + 1][1]
         title == l3_entries[entry_idx + 1][2]
         start_page == l3_entries[entry_idx + 1][3]
         section_id == extract_section_id(title)
         end_page == entry_end_page(l3_entries, entry_idx, content_end_page)
         range == page_range(start_page, end_page, Len(doc.pages))
         next_section_id ==
           IF entry_idx + 1 < Len(l3_entries)
             THEN extract_section_id(l3_entries[entry_idx + 2][2]) ELSE None
     IN /\ page_cache' =
             [pg \in DOMAIN page_cache \cup {range[k] : k \in 1..Len(range)} |->
                get_page_text(pg)]
        /\ LET kept == SelectSeq(range, LAMBDA pg : page_cache'[pg] # <<>>)
               full_text == JoinLines([k \in 1..Len(kept) |-> page_cache'[kept[k]]])
           IN sections' = Append(sections,
                [toc_idx |-> toc_idx, title |-> title, section_id |-> section_id,
                 next_section_id |-> next_section_id,
                 start_page |-> start_page, end_page |-> end_page,
                 pages |-> kept, full_text |-> full_text,
                 content |->
                   IF Strip(full_text) = <<>> THEN <<>>
                   ELSE IF section_id # None
                     THEN extract_section_text(full_text, section_id, next_section_id)
                     ELSE full_text])
        /\ LET content == sections'[Len(sections')].content
           IN chunks' =
                IF Strip(content) # <<>>
                  THEN chunks \o make_chunks(clean_content(content), doc.volume,
                                             get_part_from_toc(toc, toc_idx),
                                             section_id, title)
                  ELSE chunks
  /\ entry_idx' = entry_idx + 1
  /\ UNCHANGED <<doc, toc, pdf_pc, l3_entries, content_end_page, splitVars, mainVars>>

\* lines 197-198
ClosePdf ==
  /\ pdf_pc = "entries"
  /\ entry_idx >= Len(l3_entries)
  /\ pdf_pc' = "closed"
  /\ UNCHANGED <<doc, toc, l3_entries, content_end_page, entry_idx, page_cache,
                 sections, chunks, splitVars, mainVars>>

NextPdf == FilterToc \/ FindContentEnd \/ ProcessEntry \/ ClosePdf

SpecPdf == InitPdf /\ [][NextPdf]_vars

\* --------------------------------------------------------- main

EMBED_BATCH == 20
UPLOAD_BATCH == 50

MaxChunks == 51
MaxSkip == 10

REQUIRED == {"SUPABASE_URL", "SUPABASE_SERVICE_ROLE_KEY", "GEMINI_API_KEY"}

\* what embed_content may raise: the exception's type name and the phrases
\* str(e) contains
Exceptions ==
  {[type |-> "ClientError", msg |-> {"429", "RESOURCE_EXHAUSTED"}],
   [type |-> "ClientError", msg |-> {"400", "INVALID_ARGUMENT"}],
   [type |-> "ConnectError", msg |-> {}],
   [type |-> "OSError", msg |-> {"Connection reset"}],
   [type |-> "ConnectionError", msg |-> {}],
   [type |-> "ServerError", msg |-> {"503"}]}

NoError == [type |-> "", msg |-> {}]

\* lines 273-279
retryable(e) ==
  \/ "429" \in e.msg
  \/ "RESOURCE_EXHAUSTED" \in e.msg
  \/ e.type = "ConnectError"
  \/ "Connection reset" \in e.msg
  \/ e.type = "ConnectionError"

\* a retry loop that allows one attempt too many
retry_allowed_once_more(e, att) == retryable(e) /\ att < 5

\* line 280
retry_allowed(e, att) == retryable(e) /\ att < 4

\* line 281
backoff_wait(att) == (att + 1) * 15

\* the embedding the provider returns for one text
Embedding(content) == <<"emb", content>>

\* the chunk record chunk_pdf built for the i-th chunk, before any embedding
\* is attached
Chunk(i) == [content |-> i, embedding |-> None]

\* chunks[skip:] taken one element late
apply_skip_late(cs, skip) ==
  IF skip > 0 THEN SubSeq(cs, skip + 2, Len(cs)) ELSE cs

\* lines 361-364
apply_skip(cs, skip) ==
  IF skip > 0 THEN SubSeq(cs, skip + 1, Len(cs)) ELSE cs

\* texts[i : i + EMBED_BATCH]
embed_batch(ts, i) == SubSeq(ts, i + 1, Min(i + EMBED_BATCH, Len(ts)))

\* a slice one element too long
upload_batch_overlong(cs, i) == SubSeq(cs, i + 1, Min(i + UPLOAD_BATCH + 1, Len(cs)))

\* chunks[i : i + UPLOAD_BATCH]
upload_batch(cs, i) == SubSeq(cs, i + 1, Min(i + UPLOAD_BATCH, Len(cs)))

InitMain ==
  /\ args \in [dry_run : BOOLEAN, skip : -1..MaxSkip]
  /\ n_extracted \in 0..MaxChunks
  /\ main_pc = "start" /\ exit_msg = "" /\ pdf_opened = FALSE
  /\ chunk_objs = <<>> /\ main_chunks = <<>> /\ printed = <<>>
  /\ env_missing = {} /\ gemini = FALSE /\ sb = FALSE /\ texts = <<>>
  /\ emb_i = 0 /\ attempt = 0 /\ backoff = <<>> /\ batch_calls = 0
  /\ last_error = NoError /\ all_embeddings = <<>> /\ up_i = 0 /\ inserted = <<>>
  /\ SplitIdle
  /\ PdfIdle

\* lines 350-351
PdfNotFound ==
  /\ main_pc = "start"
  /\ main_pc' = "exit"
  /\ exit_msg' = "PDF not found"
  /\ UNCHANGED <<args, n_extracted, pdf_opened, chunk_objs, main_chunks, printed,
                 env_missing, gemini, sb, texts, emb_i, attempt, backoff,
                 batch_calls, last_error, all_embeddings, up_i, inserted,
                 splitVars, pdfVars>>

\* lines 353-355: chunk_pdf opens the document and returns its chunks;
\* main_chunks lists them by their index into chunk_objs
ChunkPdf ==
  /\ main_pc = "start"
  /\ pdf_opened' = TRUE
  /\ chunk_objs' = [i \in 1..n_extracted |-> Chunk(i)]
  /\ main_chunks' = [i \in 1..n_extracted |-> i]
  /\ main_pc' = "chunked"
  /\ UNCHANGED <<args, n_extracted, exit_msg, printed, env_missing, gemini, sb,
                 texts, emb_i, attempt, backoff, batch_calls, last_error,
                 all_embeddings, up_i, inserted, splitVars, pdfVars>>

\* print_dry_run without the return that follows it
DryRunFallThrough ==
  /\ main_pc = "chunked"
  /\ args.dry_run
  /\ printed' = <<"DRY RUN", Len(main_chunks)>>
  /\ main_chunks' = apply_skip(main_chunks, args.skip)
  /\ main_pc' = "load_env"
  /\ UNCHANGED <<args, n_extracted, exit_msg, pdf_opened, chunk_objs,
                 env_missing, gemini, sb, texts, emb_i, attempt, backoff,
                 batch_calls, last_error, all_embeddings, up_i, inserted,
                 splitVars, pdfVars>>

\* lines 357-359 and print_dry_run
DryRun ==
  /\ main_pc = "chunked"
  /\ args.dry_run
  /\ printed' = <<"DRY RUN", Len(main_chunks)>>
  /\ main_pc' = "done"
  /\ UNCHANGED <<args, n_extracted, exit_msg, pdf_opened, chunk_objs, main_chunks,
                 env_missing, gemini, sb, texts, emb_i, attempt, backoff,
                 batch_calls, last_error, all_embeddings, up_i, inserted,
                 splitVars, pdfVars>>

\* lines 361-364
ApplySkip ==
  /\ main_pc = "chunked"
  /\ ~args.dry_run
  /\ main_chunks' = apply_skip(main_chunks, args.skip)
  /\ main_pc' = "load_env"
  /\ UNCHANGED <<args, n_extracted, exit_msg, pdf_opened, chunk_objs, printed,
                 env_missing, gemini, sb, texts, emb_i, attempt, backoff,
                 batch_calls, last_error, all_embeddings, up_i, inserted,
                 splitVars, pdfVars>>

\* line 366, load_env finding some required variable unset
LoadEnvMissing ==
  /\ main_pc = "load_env"
  /\ \E missing \in SUBSET REQUIRED :
       /\ missing # {}
       /\ env_missing' = missing
  /\ main_pc' = "exit"
  /\ exit_msg' = "Missing env vars"
  /\ UNCHANGED <<args, n_extracted, pdf_opened, chunk_objs, main_chunks, printed,
                 gemini, sb, texts, emb_i, attempt, backoff, batch_calls,
                 last_error, all_embeddings, up_i, inserted, splitVars, pdfVars>>

\* lines 366-370 and 259: every required variable is set
LoadEnvOk ==
  /\ main_pc = "load_env"
  /\ gemini' = TRUE
  /\ texts' = [k \in 1..Len(main_chunks) |-> chunk_objs[main_chunks[k]].content]
  /\ all_embeddings' = <<>>
  /\ emb_i' = 0 /\ attempt' = 0
  /\ main_pc' = "embedding"
  /\ UNCHANGED <<args, n_extracted, exit_msg, pdf_opened, chunk_objs, main_chunks,
                 printed, env_missing, sb, backoff, batch_calls, last_error,
                 up_i, inserted, splitVars, pdfVars>>

\* lines 261-270, 286-287: embed_content answers for the batch at emb_i
EmbedSuccess ==
  /\ main_pc = "embedding"
  /\ emb_i < Len(texts)
  /\ LET batch == embed_batch(texts, emb_i)
     IN all_embeddings' =
          all_embeddings \o [k \in 1..Len(batch) |-> Embedding(batch[k])]
  /\ emb_i' = emb_i + EMBED_BATCH
  /\ attempt' = 0 /\ backoff' = <<>> /\ batch_calls' = 0
  /\ last_error' = NoError
  /\ UNCHANGED <<args, n_extracted, main_pc, exit_msg, pdf_opened, chunk_objs,
                 main_chunks, printed, env_missing, gemini, sb, texts, up_i,
                 inserted, splitVars, pdfVars>>

\* lines 271-283: embed_content raises and the call is tried again
EmbedRetry ==
  /\ main_pc = "embedding"
  /\ emb_i < Len(texts)
  /\ \E e \in Exceptions :
       /\ retry_allowed(e, attempt)
       /\ last_error' = e
  /\ batch_calls' = batch_calls + 1
  /\ backoff' = Append(backoff, backoff_wait(attempt))
  /\ attempt' = attempt + 1
  /\ UNCHANGED <<args, n_extracted, main_pc, exit_msg, pdf_opened, chunk_objs,
                 main_chunks, printed, env_missing, gemini, sb, texts, emb_i,
                 all_embeddings, up_i, inserted, splitVars, pdfVars>>

\* lines 271-285: embed_content raises and the exception leaves main
EmbedRaise ==
  /\ main_pc = "embedding"
  /\ emb_i < Len(texts)
  /\ \E e \in Exceptions :
       /\ ~retry_allowed(e, attempt)
       /\ last_error' = e
  /\ batch_calls' = batch_calls + 1
  /\ main_pc' = "crashed"
  /\ exit_msg' = "embedding"
  /\ UNCHANGED <<args, n_extracted, pdf_opened, chunk_objs, main_chunks, printed,
                 env_missing, gemini, sb, texts, emb_i, attempt, backoff,
                 all_embeddings, up_i, inserted, splitVars, pdfVars>>

\* lines 288, 372-381: zip(chunks, embeddings) and create_client
AttachEmbeddings ==
  /\ main_pc = "embedding"
  /\ emb_i >= Len(texts)
  /\ chunk_objs' =
       [i \in DOMAIN chunk_objs |->
          IF \E k \in 1..Min(Len(main_chunks), Len(all_embeddings)) : main_chunks[k] = i
            THEN [chunk_objs[i] EXCEPT !.embedding =
                    all_embeddings[CHOOSE k \in 1..Len(main_chunks) : main_chunks[k] = i]]
            ELSE chunk_objs[i]]
  /\ sb' = TRUE
  /\ up_i' = 0
  /\ main_pc' = "uploading"
  /\ UNCHANGED <<args, n_extracted, exit_msg, pdf_opened, main_chunks, printed,
                 env_missing, gemini, texts, emb_i, attempt, backoff, batch_calls,
                 last_error, all_embeddings, inserted, splitVars, pdfVars>>

\* lines 292-294: one insert that the store accepts
InsertBatch ==
  /\ main_pc = "uploading"
  /\ up_i < Len(main_chunks)
  /\ LET batch == upload_batch(main_chunks, up_i)
     IN inserted' = Append(inserted, [k \in 1..Len(batch) |-> chunk_objs[batch[k]]])
  /\ up_i' = up_i + UPLOAD_BATCH
  /\ UNCHANGED <<args, n_extracted, main_pc, exit_msg, pdf_opened, chunk_objs,
                 main_chunks, printed, env_missing, gemini, sb, texts, emb_i,
                 attempt, backoff, batch_calls, last_error, all_embeddings,
                 splitVars, pdfVars>>

\* line 294: an insert that raises
InsertRaise ==
  /\ main_pc = "uploading"
  /\ up_i < Len(main_chunks)
  /\ main_pc' = "crashed"
  /\ exit_msg' = "upload"
  /\ UNCHANGED <<args, n_extracted, pdf_opened, chunk_objs, main_chunks, printed,
                 env_missing, gemini, sb, texts, emb_i, attempt, backoff,
                 batch_calls, last_error, all_embeddings, up_i, inserted,
                 splitVars, pdfVars>>

\* line 383
UploadDone ==
  /\ main_pc = "uploading"
  /\ up_i >= Len(main_chunks)
  /\ main_pc' = "done"
  /\ UNCHANGED <<args, n_extracted, exit_msg, pdf_opened, chunk_objs, main_chunks,
                 printed, env_missing, gemini, sb, texts, emb_i, attempt, backoff,
                 batch_calls, last_error, all_embeddings, up_i, inserted,
                 splitVars, pdfVars>>

NextMain ==
  \/ PdfNotFound \/ ChunkPdf \/ DryRun \/ ApplySkip
  \/ LoadEnvMissing \/ LoadEnvOk
  \/ EmbedSuccess \/ EmbedRetry \/ EmbedRaise \/ AttachEmbeddings
  \/ InsertBatch \/ InsertRaise \/ UploadDone

SpecMain == InitMain /\ [][NextMain]_vars

\* ---------------------------------------------- claims on the splitter

\* chunk is an oversized fragment of the merge pass that split_at_sentences
\* hands back whole
ReturnedWhole(chunk) ==
  \E k \in 1..Len(merged) :
     /\ merged[k] = chunk
     /\ TextLen(chunk) > MAX_CHUNK_CHARS
     /\ split_at_sentences(chunk) = <<chunk>>

\* C1: every fragment split_long_chunk returns is at most MAX_CHUNK_CHARS
\* long, except an oversized fragment of the merge pass that the force-split
\* could not split and returned whole.
C1_FragmentsWithinMax ==
  split_pc = "done" =>
    \A i \in 1..Len(final) :
       TextLen(final[i]) <= MAX_CHUNK_CHARS \/ ReturnedWhole(final[i])

\* the fragments joined back with blank lines
RECURSIVE JoinParagraphs(_)
JoinParagraphs(frags) ==
  IF frags = <<>> THEN <<>>
  ELSE IF Len(frags) = 1 THEN frags[1]
  ELSE frags[1] \o <<NL, NL>> \o JoinParagraphs(Tail(frags))

\* C2: for a text longer than MAX_CHUNK_CHARS the merge pass leaves no
\* fragment shorter than MIN_CHUNK_CHARS unless it is the only fragment, and
\* it only joins neighbouring fragments (with a blank line), dropping none.
C2_MergeLeavesNoShortFragment ==
  split_pc \in {"merged", "done"} /\ TextLen(text) > MAX_CHUNK_CHARS =>
    /\ Len(merged) > 1 =>
         \A i \in 1..Len(merged) : TextLen(merged[i]) >= MIN_CHUNK_CHARS
    /\ JoinParagraphs(merged) = JoinParagraphs(result)
    /\ Len(merged) <= Len(result)

\* a short first fragment was merged forward and more than one fragment is left
C2_Witness ==
  /\ split_pc = "merged"
  /\ Len(result) >= 3
  /\ TextLen(result[1]) < MIN_CHUNK_CHARS
  /\ Len(merged) >= 2
  /\ Len(merged) < Len(result)

\* ------------------------------------------ claims on the segmenter

SetMax(S) == CHOOSE x \in S : \A y \in S : y <= x
SetMin(S) == CHOOSE x \in S : \A y \in S : x <= y

\* the nearest entry with level <= 2 before the 0-based toc index i is a
\* state-specific appendix
UnderStateAppendix(i) ==
  LET anc == {j \in 0..(i - 1) : toc[j + 1].level <= 2}
  IN anc # {} /\ is_state_appendix(toc[SetMax(anc) + 1].title,
                                   toc[SetMax(anc) + 1].level)

\* C3: a level-3 entry is collected as a candidate section if and only if
\* the nearest preceding entry with level <= 2 is not a state-specific
\* appendix (or there is none); candidates keep the order, title and page of
\* their entries, and no section processed and no chunk emitted comes from
\* under a state-specific appendix.
C3_StateAppendixExcluded ==
  pdf_pc # "open" =>
    /\ \A i \in 0..(Len(toc) - 1) :
         (\E k \in 1..Len(l3_entries) : l3_entries[k][1] = i)
           <=> (toc[i + 1].level = 3 /\ ~UnderStateAppendix(i))
    /\ \A k \in 1..Len(l3_entries) :
         /\ l3_entries[k][1] \in 0..(Len(toc) - 1)
         /\ l3_entries[k] = <<l3_entries[k][1], toc[l3_entries[k][1] + 1].title,
                              toc[l3_entries[k][1] + 1].page>>
         /\ k > 1 => l3_entries[k - 1][1] < l3_entries[k][1]
    /\ \A k \in 1..Len(sections) : ~UnderStateAppendix(sections[k].toc_idx)
    /\ \A c \in 1..Len(chunks) :
         chunks[c].part = None \/ ~is_state_appendix(chunks[c].part, 2)

\* a level-3 entry under "NSW Appendix" is left out while another level-3
\* entry of the same table of contents is chunked
C3_Witness ==
  /\ pdf_pc = "closed"
  /\ chunks # <<>>
  /\ \E i \in 1..Len(toc) :
       /\ toc[i].level = 3
       /\ UnderStateAppendix(i - 1)
       /\ \E j \in 1..(i - 1) : toc[j].level = 2 /\ toc[j].title = TITLE_NSW
       /\ \A k \in 1..Len(l3_entries) : l3_entries[k][1] # i - 1

\* 1-based numbers of the pages a processed section concatenated
PagesOf(s) == {s.pages[k] + 1 : k \in 1..Len(s.pages)}

HasText(p) == clean_page_text(doc.pages[p], doc.volume) # <<>>

\* the content-end boundary, from the table of contents
ContentEnd ==
  LET last == IF l3_entries = <<>> THEN 0 ELSE l3_entries[Len(l3_entries)][1]
      after == {i \in (last + 1)..(Len(toc) - 1) : toc[i + 1].level <= 1}
  IN IF after = {} THEN Len(doc.pages) ELSE toc[SetMin(after) + 1].page

\* the end of the k-th candidate's page range
RangeEnd(k) ==
  IF k < Len(l3_entries) THEN l3_entries[k + 1][3] ELSE ContentEnd

\* C7 as stated: the pages concatenated for a candidate run from its start
\* page up to, but not including, the next candidate's start page (the
\* content-end boundary for the last candidate).
C7_RangeEndExclusive ==
  \A k \in 1..Len(sections) :
     PagesOf(sections[k]) =
       {p \in l3_entries[k][3]..(RangeEnd(k) - 1) : HasText(p)}

\* C7 amended: the pages concatenated for a candidate are those with text
\* from its start page through the next candidate's start page, that page
\* included (through the content-end boundary page for the last candidate),
\* and never beyond the last page of the document; they are taken in
\* increasing order.  The boundary is the start page of the first
\* level-<=1 entry after the last candidate, or the page count.
C7_RangeEndInclusive ==
  /\ pdf_pc \in {"entries", "closed"} => content_end_page = ContentEnd
  /\ \A k \in 1..Len(sections) :
       /\ sections[k].start_page = l3_entries[k][3]
       /\ sections[k].end_page = RangeEnd(k)
       /\ PagesOf(sections[k]) =
            {p \in l3_entries[k][3]..Min(RangeEnd(k), Len(doc.pages)) : HasText(p)}
       /\ \A a, b \in 1..Len(sections[k].pages) :
            a < b => sections[k].pages[a] < sections[k].pages[b]

\* a candidate whose concatenation takes in the page the next candidate
\* starts on, a later page than its own
C7_Witness ==
  /\ pdf_pc = "closed"
  /\ Len(sections) >= 2
  /\ sections[1].start_page < sections[2].start_page
  /\ sections[2].start_page \in PagesOf(sections[1])
  /\ sections[1].start_page \in PagesOf(sections[1])

\* 1-based positions at which pat occurs in t
Occurrences(t, pat) ==
  {i \in 1..(Len(t) - Len(pat) + 1) : SubSeq(t, i, i + Len(pat) - 1) = pat}

\* the identifiers of the candidate sections
CandidateIds ==
  {extract_section_id(l3_entries[k][2]) : k \in 1..Len(l3_entries)} \ {None}

\* the part of full_text from the first occurrence of the section's marker
\* to just before the first occurrence of the next section's marker at or
\* after position `from` of the text (1: anywhere after the marker begins)
MarkedPart(s, from) ==
  LET own == Occurrences(s.full_text, marker_of(s.section_id))
      nxt == IF s.next_section_id = None THEN {}
             ELSE {j \in Occurrences(s.full_text, marker_of(s.next_section_id)) :
                     j >= from}
  IN Slice(s.full_text, SetMin(own),
           IF nxt = {} THEN Len(s.full_text) + 1 ELSE SetMin(nxt))

Extracted(k) ==
  /\ sections[k].section_id # None
  /\ Strip(sections[k].full_text) # <<>>

\* C8 as stated: the extracted text of a section with an identifier runs
\* from its own marker to just before the next section's marker after it (to
\* the end without one, the whole concatenation when its own marker is
\* missing), and so never contains the marker of another section.
C8_NoForeignMarker ==
  \A k \in 1..Len(sections) :
     Extracted(k) =>
       LET s == sections[k]
           own == Occurrences(s.full_text, marker_of(s.section_id))
       IN /\ s.content =
               IF own = {} THEN s.full_text
               ELSE Strip(MarkedPart(s, SetMin(own) + 1))
          /\ \A id \in CandidateIds \ {s.section_id} :
               Occurrences(s.content, marker_of(id)) = {}

\* C8 amended: the extracted text is the whitespace-stripped part of the
\* concatenation from the first occurrence of the section's own marker to
\* just before the first occurrence of the next section's marker that
\* begins after the own marker has ended (to the end without one), and the
\* whole concatenation when the own marker is missing.  When the own marker
\* is found, the extracted text holds no occurrence of the next section's
\* marker that begins after the own marker.
C8_NoNextMarkerAfterOwn ==
  \A k \in 1..Len(sections) :
     Extracted(k) =>
       LET s == sections[k]
           marker == marker_of(s.section_id)
           own == Occurrences(s.full_text, marker)
       IN /\ s.content =
               IF own = {} THEN s.full_text
               ELSE Strip(MarkedPart(s, SetMin(own) + Len(marker)))
          /\ own # {} /\ s.next_section_id # None =>
               \A j \in Occurrences(s.content, marker_of(s.next_section_id)) :
                  j < Len(marker)

\* two sections start on the same page and the first one's text is cut
\* just before the second one's marker
C8_Witness ==
  /\ pdf_pc = "closed"
  /\ Len(sections) >= 2
  /\ Extracted(1)
  /\ sections[1].next_section_id \notin {None, sections[1].section_id}
  /\ sections[1].start_page = sections[2].start_page
  /\ Occurrences(sections[1].full_text, marker_of(sections[1].section_id)) # {}
  /\ Occurrences(sections[1].full_text, marker_of(sections[1].next_section_id)) # {}
  /\ Occurrences(sections[1].content, marker_of(sections[1].next_section_id)) = {}
  /\ Len(sections[1].content) < Len(sections[1].full_text)

\* ------------------------------------------------- claims on main

\* the chunk records sent to the store so far, in the order sent
Uploaded == Concat(inserted)

PastSkip == main_pc \in {"load_env", "embedding", "uploading", "done", "crashed"}
               \/ (main_pc = "exit" /\ env_missing # {})

\* C4: in a non-dry run with skip count n on N extracted chunks,
\* 0 <= n <= N, the chunks handed to the embedding and upload stages are
\* exactly the N - n chunks at indices n..N-1 in their order; the first n
\* chunks are never embedded, given an embedding or uploaded, and a run that
\* completes has uploaded exactly the N - n forwarded chunks, in order, each
\* with its own embedding.
C4_SkipForwardsTail ==
  ~args.dry_run /\ args.skip \in 0..n_extracted /\ PastSkip =>
    /\ main_chunks = [k \in 1..(n_extracted - args.skip) |-> args.skip + k]
    /\ main_pc \in {"embedding", "uploading", "done", "crashed"} =>
         texts = [k \in 1..(n_extracted - args.skip) |-> Chunk(args.skip + k).content]
    /\ \A k \in 1..Len(all_embeddings) :
         all_embeddings[k] = Embedding(Chunk(args.skip + k).content)
    /\ \A i \in 1..args.skip : chunk_objs[i] = Chunk(i)
    /\ \A k \in 1..Len(Uploaded) : Uploaded[k].content = Chunk(args.skip + k).content
    /\ main_pc = "done" =>
         Uploaded = [k \in 1..(n_extracted - args.skip) |->
                       [content |-> Chunk(args.skip + k).content,
                        embedding |-> Embedding(Chunk(args.skip + k).content)]]

\* --skip 10 on a 40-chunk extraction has run to the end: 30 chunks uploaded
C4_Witness ==
  /\ ~args.dry_run /\ args.skip = 10 /\ n_extracted = 40
  /\ main_pc = "done"
  /\ Len(Uploaded) = 30
  /\ Len(texts) = 30

\* C5: a dry run never contacts an external service: no client of the
\* embedding provider or of the store is created, no embedding call and no
\* insert is made, the environment is not consulted, and the run ends after
\* printing the extracted chunks.
C5_DryRunContactsNothing ==
  args.dry_run =>
    /\ ~gemini /\ ~sb
    /\ batch_calls = 0 /\ last_error = NoError /\ all_embeddings = <<>>
    /\ texts = <<>> /\ inserted = <<>> /\ env_missing = {}
    /\ main_pc \in {"idle", "start", "chunked", "done", "exit"}
    /\ main_pc = "done" => printed = <<"DRY RUN", n_extracted>>

\* a dry run with a skip count has ended after printing all 40 chunks
C5_Witness ==
  /\ args.dry_run /\ args.skip = 10 /\ n_extracted = 40
  /\ main_pc = "done"
  /\ printed = <<"DRY RUN", 40>>

\* C6: when a required credential is absent the process fails before any
\* processing: the configuration error comes before the PDF is opened and
\* before chunk_pdf has done any work.
C6_FailFastBeforeProcessing ==
  main_pc = "exit" /\ env_missing # {} =>
    ~pdf_opened /\ chunk_objs = <<>> /\ main_chunks = <<>>

\* C9: a batch is sent at most 5 times; every further attempt follows a
\* transient failure and waits of 15, 30, 45, 60 seconds; a non-transient
\* failure, or a transient one on the fifth attempt, ends the run at that
\* batch; the embeddings collected are those of the batches before the
\* current one, each once, in order.
C9_BoundedRetry ==
  /\ main_pc = "embedding" =>
       /\ attempt \in 0..4
       /\ batch_calls = attempt
       /\ backoff = [k \in 1..attempt |-> 15 * k]
       /\ attempt > 0 => retryable(last_error)
       /\ emb_i % EMBED_BATCH = 0
       /\ all_embeddings =
            [k \in 1..Min(emb_i, Len(texts)) |-> Embedding(texts[k])]
  /\ main_pc = "crashed" /\ exit_msg = "embedding" =>
       /\ batch_calls \in 1..5
       /\ batch_calls = attempt + 1
       /\ ~retryable(last_error) \/ batch_calls = 5
       /\ emb_i < Len(texts)
       /\ all_embeddings = [k \in 1..emb_i |-> Embedding(texts[k])]
       /\ inserted = <<>> /\ ~sb
  /\ main_pc \in {"uploading", "done"} =>
       all_embeddings = [k \in 1..Len(texts) |-> Embedding(texts[k])]

\* the second batch has failed four times and waits for its fifth attempt
C9_Witness ==
  /\ main_pc = "embedding"
  /\ emb_i = EMBED_BATCH
  /\ attempt = 4
  /\ backoff = <<15, 30, 45, 60>>
  /\ Len(all_embeddings) = EMBED_BATCH
  /\ Len(texts) > EMBED_BATCH

\* C10: nothing is inserted before every embedding batch has succeeded, so
\* a run that stops during embedding has inserted nothing; records go to
\* the store in batches of at most UPLOAD_BATCH, in chunk order, each with
\* its embedding; when an insert fails the batches before it stay and none
\* after it is sent.
C10_UploadAfterAllEmbeddings ==
  /\ inserted # <<>> =>
       /\ main_pc \in {"uploading", "done", "crashed"}
       /\ main_pc = "crashed" => exit_msg = "upload"
       /\ sb
       /\ Len(all_embeddings) = Len(main_chunks)
  /\ main_pc = "crashed" /\ exit_msg = "embedding" => inserted = <<>>
  /\ \A b \in 1..Len(inserted) :
       /\ Len(inserted[b]) \in 1..UPLOAD_BATCH
       /\ b < Len(inserted) => Len(inserted[b]) = UPLOAD_BATCH
  /\ Len(Uploaded) <= Len(main_chunks)
  /\ \A k \in 1..Len(Uploaded) :
       Uploaded[k] = [content |-> Chunk(main_chunks[k]).content,
                      embedding |-> Embedding(Chunk(main_chunks[k]).content)]
  /\ main_pc \in {"uploading", "crashed"} /\ exit_msg # "embedding" =>
       Len(Uploaded) = Min(up_i, Len(main_chunks))
  /\ main_pc = "done" /\ ~args.dry_run => Len(Uploaded) = Len(main_chunks)

\* the second insert of a 51-chunk run has failed: the first 50 records stay
C10_Witness ==
  /\ main_pc = "crashed" /\ exit_msg = "upload"
  /\ Len(main_chunks) = UPLOAD_BATCH + 1
  /\ Len(inserted) = 1
  /\ Len(Uploaded) = UPLOAD_BATCH

====
